---------------------------- MODULE Spec2Model ----------------------------
(***************************************************************************)
(* A model of src/aggregator/aggregator/list.go: the metric list (one per  *)
(* resolution) with its flush protocol and size-based chunking, and the    *)
(* registry of metric lists.                                               *)
(*                                                                         *)
(* Threads call the exported operations.  An operation that runs entirely  *)
(* inside one critical section of a lock is one action, enabled when the   *)
(* lock can be taken; Flush, FindOrCreate, Tick and the registry's Close   *)
(* span several critical sections or hold a lock across calls and are      *)
(* several actions, with the thread's position kept in th[t].pc.           *)
(***************************************************************************)
EXTENDS Integers, Sequences, FiniteSets, TLC

(***************************************************************************)
(* Bounds of the model.                                                    *)
(***************************************************************************)
MaxPush == 2        \* PushBack calls that reach the list, over a run
MaxFlushes == 2     \* Flush calls per list, over a run
MaxSamples == 3     \* samples emitted over a run of EmitSpec
MaxConcSamples == 1 \* samples emitted over a run of ListSpec
MaxFlushSizeOpt == 3 \* opts.MaxFlushSize() of the checked configuration
MaxFinds == 3       \* FindOrCreate calls, over a run
MaxRegCloses == 2   \* registry Close calls, over a run
MaxListCloses == 2  \* Close calls of the producers per list, over a run
MaxTicks == 1       \* Tick calls, over a run
MaxNow == 7         \* the clock's last value, in a run of ClockSpec
MaxSysCalls == 5    \* calls but Len, over a run of SysSpec

\* The chunking scenario: the maximum flush size, the size every sample
\* encodes to, and the samples the element emits at most.
ChunkMaxFlushSize == 64
ChunkRecordSize == 20
ChunkSamples == 100

Producers == {"p1", "p2"}   \* threads calling PushBack, Len and Close
Flushers == {"f1", "f2"}    \* threads the flush manager calls Flush on
RegThreads == {"r1", "r2"}  \* threads calling the registry
Threads == Producers \cup Flushers \cup RegThreads
NoThread == "none"

Resolutions == {1, 3}   \* the resolutions asked of the registry

VARIABLES
    ml,        \* the metric lists ever constructed; a list's id is its index
    llock,     \* ml[l]'s embedded sync.RWMutex: [w |-> thread, r |-> readers]
    elems,     \* the list.Elements ever created; a handle is its index
    timeLock,  \* opts.TimeLock(): [w |-> thread, r |-> readers]
    now,       \* the value nowFn() returns
    sink,      \* the buffers handed to flushHandler.Handle, in hand-off order
    pool,      \* the number of encoderPool.Get() calls so far
    flushMgr,  \* the lists registered with opts.FlushManager(), in order
    reg,       \* the metricLists registry: [closed, lists]
    rlock,     \* the registry's embedded sync.RWMutex
    th,        \* each thread's position and locals
    hist       \* history: what the run did so far (read by no action's guard
               \* but the bounds)

vars == <<ml, llock, elems, timeLock, now, sink, pool, flushMgr, reg, rlock,
          th, hist>>

FreeLock == [w |-> NoThread, r |-> {}]

(***************************************************************************)
(* sync.RWMutex: Lock needs no holder at all, RLock no writer.             *)
(***************************************************************************)
\* A Lock that does not wait for the readers.
CanLockBesideReaders(lk) == lk.w = NoThread

CanLock(lk) == lk.w = NoThread /\ lk.r = {}
CanRLock(lk) == lk.w = NoThread

\* An RUnlock that leaves the read lock held.
RUnlockForgotten(lk, t) == lk

\* RUnlock by reader t
RUnlock(lk, t) == [lk EXCEPT !.r = @ \ {t}]

(***************************************************************************)
(* Options.                                                                *)
(***************************************************************************)
Opts == [minFlushInterval |-> 2, maxFlushSize |-> MaxFlushSizeOpt]

\* The sizes a record may encode to: a small one, and one that fills a buffer
\* to the maximum flush size by itself.
RecSizes == {1, Opts.maxFlushSize}

(***************************************************************************)
(* The encoder and its buffer (msgpack.AggregatedEncoder over a            *)
(* BufferedEncoder of the pool).  A byte is <<record, k, size>>: the k-th  *)
(* byte of the record, which encodes to size bytes.                        *)
(***************************************************************************)
RecordBytes(rid, size) == [k \in 1..size |-> <<rid, k, size>>]

\* encoderPool.Get() followed by Reset(): an encoder of its own, empty.
PoolGet(n) == [id |-> n + 1, bytes |-> <<>>]

\* buffer.Truncate(n)
Truncate(bytes, n) == SubSeq(bytes, 1, n)

\* EncodeChunkedMetricWithPolicy: appends the record; a failing call may have
\* written the first `partial` bytes of it and leaves the encoder in error; a
\* call on an encoder in error fails and writes nothing.
EncodeRecord(enc, rid, size, fails, partial) ==
    IF enc.err
    THEN enc
    ELSE IF fails
         THEN [enc EXCEPT !.bytes = @ \o SubSeq(RecordBytes(rid, size), 1, partial),
                          !.err = TRUE]
         ELSE [enc EXCEPT !.bytes = @ \o RecordBytes(rid, size)]

\* AggregatedEncoder.Reset(buffered encoder): encode into it, error cleared.
EncoderReset(buffered) == [id |-> buffered.id, bytes |-> buffered.bytes, err |-> FALSE]


(***************************************************************************)
(* newMetricList: the flush interval is the resolution unless that is      *)
(* smaller than the minimum flush interval.                                *)
(***************************************************************************)
\* The flush interval without the minimum.
NewFlushIntervalUnclamped(resolution, minFlushInterval) == resolution

NewFlushInterval(resolution, minFlushInterval) ==
    IF resolution < minFlushInterval THEN minFlushInterval ELSE resolution

NewMetricListMetrics ==
    [encodeErrors |-> 0, flushCollected |-> 0, flushSuccess |-> 0, flushErrors |-> 0]

NewMetricList(resolution, opts, n) ==
    [resolution    |-> resolution,
     flushInterval |-> NewFlushInterval(resolution, opts.minFlushInterval),
     maxFlushSize  |-> opts.maxFlushSize,
     aggregations  |-> <<>>,
     encoder       |-> EncoderReset(PoolGet(n)),
     toCollect     |-> <<>>,
     closed        |-> FALSE,
     metrics       |-> NewMetricListMetrics]

\* What the history keeps of one list: the records encoded, the Flush calls
\* and the producers' Close calls, whether a Close returned, aggregations as
\* the last consume phase found it, and the Consume calls in call order.
NewListHist == [encoded |-> <<>>, nflush |-> 0, closes |-> 0, closeReturned |-> FALSE,
                atRLock |-> <<>>, order |-> <<>>, starts |-> <<>>]

Idle == [pc |-> "idle", l |-> 0, i |-> 0, aligned |-> 0, res |-> 0, todo |-> {},
         activeElems |-> <<>>]

\* A call's return, as the history keeps it: the thread, the operation and the
\* list it was called on, the error, and the handle or the number returned.
Ret(t, op, l, err, h, n) == [t |-> t, op |-> op, l |-> l, err |-> err, h |-> h, n |-> n]

\* FindOrCreate's return, with the place it returned from: the first look
\* ("rlock"), the second look ("lock"), or after creating the list ("new").
RetFind(t, l, err, resolution, via) ==
    [t |-> t, op |-> "FindOrCreate:" \o via, l |-> l, err |-> err, h |-> 0, n |-> resolution]

ErrListClosed == "metric list is closed"
ErrListsClosed == "metric lists are closed"

NewMetricLists == [closed |-> FALSE, lists |-> [r \in Resolutions |-> 0]]

NoHist == [lists |-> <<>>, recs |-> <<>>, consumed |-> <<>>, elemClosed |-> <<>>,
           pushedAt |-> <<>>, activeElems |-> <<>>,
           pushes |-> 0, finds |-> 0, ticks |-> 0, regCloses |-> 0,
           regCloseReturned |-> FALSE,
           returned |-> {}, requested |-> {},
           resp |-> Ret(NoThread, "none", 0, "nil", 0, 0)]

(***************************************************************************)
(* Init: the registry newMetricLists(opts) returns, no list yet.           *)
(* InitList: one list, as newMetricList(resolution, opts) returns it.      *)
(***************************************************************************)
Init ==
    /\ ml = <<>>
    /\ llock = <<>>
    /\ elems = <<>>
    /\ timeLock = FreeLock
    /\ now = 0
    /\ sink = <<>>
    /\ pool = 0
    /\ flushMgr = <<>>
    /\ reg = NewMetricLists
    /\ rlock = FreeLock
    /\ th = [t \in Threads |-> Idle]
    /\ hist = NoHist

ListResolution == CHOOSE r \in Resolutions : \A q \in Resolutions : q <= r

InitList ==
    /\ ml = <<NewMetricList(ListResolution, Opts, 0)>>
    /\ llock = <<FreeLock>>
    /\ elems = <<>>
    /\ timeLock = FreeLock
    /\ now = 0
    /\ sink = <<>>
    /\ pool = 1
    /\ flushMgr = <<1>>
    /\ reg = NewMetricLists
    /\ rlock = FreeLock
    /\ th = [t \in Threads |-> Idle]
    /\ hist = [NoHist EXCEPT !.lists = <<NewListHist>>]

ListIds == DOMAIN ml

(***************************************************************************)
(* metricList.Len                                                          *)
(***************************************************************************)
ListLen(t, l) ==
    /\ th[t].pc = "idle"
    /\ l \in ListIds
    /\ CanRLock(llock[l])
    /\ hist' = [hist EXCEPT !.resp = Ret(t, "Len", l, "nil", 0, Len(ml[l].aggregations))]
    /\ UNCHANGED <<ml, llock, elems, timeLock, now, sink, pool, flushMgr, reg, rlock, th>>

(***************************************************************************)
(* metricList.PushBack: under the write lock, refuse when closed, otherwise*)
(* append a new element holding the value at the tail.                     *)
(***************************************************************************)
\* PushBack without the check of closed.
PushBackUnchecked(m, h) ==
    [m |-> [m EXCEPT !.aggregations = Append(@, h)], h |-> h, err |-> "nil"]

PushBackResult(m, h) ==
    IF m.closed
    THEN [m |-> m, h |-> 0, err |-> ErrListClosed]
    ELSE [m |-> [m EXCEPT !.aggregations = Append(@, h)], h |-> h, err |-> "nil"]

\* For the history: the flushes of l started so far and the threads inside a
\* Flush of l, when an element is appended.
PushedAt(l) ==
    [flush |-> hist.lists[l].nflush,
     busy |-> {f \in Flushers : th[f].pc # "idle" /\ th[f].l = l}]

PushBack(t, l) ==
    /\ th[t].pc = "idle"
    /\ l \in ListIds
    /\ hist.pushes < MaxPush
    /\ CanLock(llock[l])
    /\ LET r == PushBackResult(ml[l], Len(elems) + 1) IN
        /\ ml' = [ml EXCEPT ![l] = r.m]
        /\ elems' = IF r.h = 0 THEN elems ELSE Append(elems, [list |-> l, value |-> "elem"])
        /\ hist' = [hist EXCEPT !.resp = Ret(t, "PushBack", l, r.err, r.h, 0),
                                !.pushes = @ + 1,
                                !.consumed = IF r.h = 0 THEN @ ELSE Append(@, <<>>),
                                !.elemClosed = IF r.h = 0 THEN @ ELSE Append(@, 0),
                                !.pushedAt = IF r.h = 0 THEN @ ELSE Append(@, PushedAt(l))]
    /\ UNCHANGED <<llock, timeLock, now, sink, pool, flushMgr, reg, rlock, th>>

(***************************************************************************)
(* metricList.Close                                                        *)
(***************************************************************************)
\* A Close that drains: it drops the elements and the buffered bytes.
CloseListDraining(m) ==
    [m EXCEPT !.closed = TRUE, !.aggregations = <<>>, !.encoder.bytes = <<>>]

CloseList(m) == IF m.closed THEN m ELSE [m EXCEPT !.closed = TRUE]

ListClose(t, l) ==
    /\ th[t].pc = "idle"
    /\ l \in ListIds
    /\ hist.lists[l].closes < MaxListCloses
    /\ CanLock(llock[l])
    /\ ml' = [ml EXCEPT ![l] = CloseList(@)]
    /\ hist' = [hist EXCEPT !.resp = Ret(t, "Close", l, "nil", 0, 0),
                            !.lists[l].closes = @ + 1,
                            !.lists[l].closeReturned = TRUE]
    /\ UNCHANGED <<llock, elems, timeLock, now, sink, pool, flushMgr, reg, rlock, th>>

(***************************************************************************)
(* metricList.Flush, phase by phase.                                       *)
(***************************************************************************)
\* The start rounded up to a multiple of the resolution.
AlignedStartCeil(start, resolution) ==
    ((start + resolution - 1) \div resolution) * resolution

\* start.Truncate(resolution)
AlignedStart(start, resolution) == (start \div resolution) * resolution

\* Under the time lock's write side: sample the clock, align it.
FlushBegin(t, l) ==
    /\ th[t].pc = "idle"
    /\ l \in ListIds
    /\ hist.lists[l].nflush < MaxFlushes
    /\ CanLock(timeLock)
    /\ th' = [th EXCEPT ![t].pc = "reset", ![t].l = l, ![t].i = 0,
                        ![t].aligned = AlignedStart(now, ml[l].resolution)]
    /\ hist' = [hist EXCEPT
             !.lists[l].nflush = @ + 1,
             !.lists[l].starts = Append(@, [start |-> now,
                                            aligned |-> AlignedStart(now, ml[l].resolution)])]
    /\ UNCHANGED <<ml, llock, elems, timeLock, now, sink, pool, flushMgr, reg, rlock>>

\* l.toCollect = l.toCollect[:0], under no lock.
FlushReset(t) ==
    /\ th[t].pc = "reset"
    /\ ml' = [ml EXCEPT ![th[t].l].toCollect = <<>>]
    /\ th' = [th EXCEPT ![t].pc = "rlock"]
    /\ UNCHANGED <<llock, elems, timeLock, now, sink, pool, flushMgr, reg, rlock, hist>>

\* l.RLock(); e := l.aggregations.Front()
FlushRLock(t) ==
    /\ th[t].pc = "rlock"
    /\ CanRLock(llock[th[t].l])
    /\ llock' = [llock EXCEPT ![th[t].l].r = @ \cup {t}]
    /\ th' = [th EXCEPT ![t].pc = "iter", ![t].i = 1]
    /\ hist' = [hist EXCEPT !.lists[th[t].l].atRLock = ml[th[t].l].aggregations]
    /\ UNCHANGED <<ml, elems, timeLock, now, sink, pool, flushMgr, reg, rlock>>

\* The loop's next element: elem := e.Value.(metricElem), which panics on an
\* element whose value is nil; then elem.Consume is entered.
ConsumeBegin(t) ==
    /\ th[t].pc = "iter"
    /\ th[t].i <= Len(ml[th[t].l].aggregations)
    /\ LET l == th[t].l
           h == ml[l].aggregations[th[t].i]
       IN  IF elems[h].value = "nil"
           THEN /\ th' = [th EXCEPT ![t].pc = "panic"]
                /\ UNCHANGED hist
           ELSE /\ th' = [th EXCEPT ![t].pc = "consume"]
                /\ hist' = [hist EXCEPT !.lists[l].order =
                              Append(@, [t |-> t, flush |-> hist.lists[l].nflush, h |-> h,
                                         aligned |-> th[t].aligned])]
    /\ UNCHANGED <<ml, llock, elems, timeLock, now, sink, pool, flushMgr, reg, rlock>>

(***************************************************************************)
(* processAggregatedMetric, the callback an element calls for each sample. *)
(***************************************************************************)
\* The encode error path without the truncation.
EncodeFailedKeep(m, enc, sizeBefore) ==
    [m EXCEPT !.metrics.encodeErrors = @ + 1,
              !.encoder = EncoderReset([id |-> enc.id, bytes |-> enc.bytes])]

\* The encode error path: count it, truncate to the size before the call,
\* reset the encoder on the same buffer to clear its error.
EncodeFailed(m, enc, sizeBefore) ==
    [m EXCEPT !.metrics.encodeErrors = @ + 1,
              !.encoder = EncoderReset([id |-> enc.id, bytes |-> Truncate(enc.bytes, sizeBefore)])]

\* The threshold test against twice the maximum flush size.
StaysBufferedTwice(sizeAfter, maxFlushSize) == sizeAfter < 2 * maxFlushSize

\* The threshold test with <= for <.
StaysBufferedIncl(sizeAfter, maxFlushSize) == sizeAfter <= maxFlushSize

\* "If the buffer size is not big enough, do nothing."
StaysBuffered(sizeAfter, maxFlushSize) == sizeAfter < maxFlushSize

\* The carried bytes taken one byte late.
CarryOverLate(data, sizeBefore, sizeAfter) == SubSeq(data, sizeBefore + 2, sizeAfter)

\* encoder2.Buffer().Write(data[sizeBefore:sizeAfter])
CarryOver(data, sizeBefore, sizeAfter) == SubSeq(data, sizeBefore + 1, sizeAfter)

\* The split without the truncation: the carried record goes out as well.
HandedOffWhole(data, sizeBefore) == data

\* buffer.Truncate(sizeBefore): what is left in the buffer handed to the sink.
HandedOff(data, sizeBefore) == Truncate(data, sizeBefore)

\* Every hand-off counted as a success.
CountHandleSuccess(metrics, ok) == [metrics EXCEPT !.flushSuccess = @ + 1]

\* The outcome of flushHandler.Handle, counted.
CountHandle(metrics, ok) ==
    IF ok THEN [metrics EXCEPT !.flushSuccess = @ + 1]
          ELSE [metrics EXCEPT !.flushErrors = @ + 1]

\* What Handle received: the list, the encoder, its bytes, and the answer
\* Handle gave; flush is the number of the list's Flush that handed it, and
\* crossing the sample whose record crossed the threshold (0: the tail flush).
Handed(l, id, bytes, ok, flush, crossing) ==
    [l |-> l, id |-> id, bytes |-> bytes, ok |-> ok, flush |-> flush,
     crossing |-> crossing]

ProcessAggregatedMetric(t, size, fails, partial, sinkOK) ==
    LET l == th[t].l
        m == ml[l]
        rid == Len(hist.recs) + 1
        sizeBefore == Len(m.encoder.bytes)
        enc == EncodeRecord(m.encoder, rid, size, fails, partial)
        sizeAfter == Len(enc.bytes)
        encoder2 == PoolGet(pool)
    IN  /\ th[t].pc = "consume"
        /\ hist' = [hist EXCEPT
                 !.recs = Append(@, [l |-> l, h |-> m.aggregations[th[t].i], size |-> size,
                                     ok |-> ~enc.err, flush |-> hist.lists[l].nflush]),
                 !.lists[l].encoded = IF enc.err THEN @ ELSE @ \o RecordBytes(rid, size)]
        /\ IF enc.err
           THEN /\ ml' = [ml EXCEPT ![l] = EncodeFailed(m, enc, sizeBefore)]
                /\ UNCHANGED <<sink, pool>>
           ELSE IF StaysBuffered(sizeAfter, m.maxFlushSize)
           THEN /\ ml' = [ml EXCEPT ![l].encoder = enc]
                /\ UNCHANGED <<sink, pool>>
           ELSE /\ ml' = [ml EXCEPT
                        ![l].encoder = EncoderReset(
                            [encoder2 EXCEPT !.bytes = @ \o CarryOver(enc.bytes, sizeBefore, sizeAfter)]),
                        ![l].metrics = CountHandle(@, sinkOK)]
                /\ pool' = pool + 1
                /\ sink' = Append(sink, Handed(l, enc.id, HandedOff(enc.bytes, sizeBefore),
                                               sinkOK, hist.lists[l].nflush, rid))
        /\ UNCHANGED <<llock, elems, timeLock, now, flushMgr, reg, rlock, th>>

\* One sample of the element being consumed: its size, whether encoding it
\* fails (and after how many bytes), and what the sink answers if it is asked.
Emit(t) ==
    \E size \in RecSizes, fails \in BOOLEAN, sinkOK \in BOOLEAN :
        \E partial \in IF fails THEN 0..(size - 1) ELSE {0} :
            ProcessAggregatedMetric(t, size, fails, partial, sinkOK)

\* Consume returns; if the element is eligible for collection it is closed,
\* e.Value is set to nil and e is appended to toCollect.
\* The element closed and set to nil but not remembered for collection.
TombstoneForgotten(m, h) == m

Tombstone(m, h) == [m EXCEPT !.toCollect = Append(@, h)]

ConsumeReturn(t, collect) ==
    LET l == th[t].l
        h == ml[l].aggregations[th[t].i]
    IN  /\ th[t].pc = "consume"
        /\ ml' = IF collect THEN [ml EXCEPT ![l] = Tombstone(@, h)] ELSE ml
        /\ elems' = IF collect THEN [elems EXCEPT ![h].value = "nil"] ELSE elems
        /\ th' = [th EXCEPT ![t].pc = "iter", ![t].i = @ + 1]
        /\ hist' = [hist EXCEPT
                 !.consumed[h] = Append(@, [flush |-> hist.lists[l].nflush,
                                           aligned |-> th[t].aligned, ret |-> collect]),
                 !.elemClosed[h] = IF collect THEN @ + 1 ELSE @]
        /\ UNCHANGED <<llock, timeLock, now, sink, pool, flushMgr, reg, rlock>>

\* The append of a Consume that returned true, racing with another Flush of
\* the list: toCollect is written under the read lock, which the other flush
\* may hold as well, and is reset under no lock, so the append may have read
\* toCollect before entries now in it were written and write back without
\* them.  It keeps the first k entries.
OtherFlushes(t) ==
    {f \in Flushers \ {t} : th[f].pc \notin {"idle", "panic"} /\ th[f].l = th[t].l}

ConsumeReturnStale(t, k) ==
    LET l == th[t].l
        h == ml[l].aggregations[th[t].i]
    IN  /\ th[t].pc = "consume"
        /\ OtherFlushes(t) # {}
        /\ k < Len(ml[l].toCollect)
        /\ ml' = [ml EXCEPT ![l] = Tombstone([@ EXCEPT !.toCollect = SubSeq(@, 1, k)], h)]
        /\ elems' = [elems EXCEPT ![h].value = "nil"]
        /\ th' = [th EXCEPT ![t].pc = "iter", ![t].i = @ + 1]
        /\ hist' = [hist EXCEPT
                 !.consumed[h] = Append(@, [flush |-> hist.lists[l].nflush,
                                           aligned |-> th[t].aligned, ret |-> TRUE]),
                 !.elemClosed[h] = @ + 1]
        /\ UNCHANGED <<llock, timeLock, now, sink, pool, flushMgr, reg, rlock>>

\* The loop ends: l.RUnlock()
FlushRUnlock(t) ==
    /\ th[t].pc = "iter"
    /\ th[t].i > Len(ml[th[t].l].aggregations)
    /\ llock' = [llock EXCEPT ![th[t].l] = RUnlock(@, t)]
    /\ th' = [th EXCEPT ![t].pc = "tail"]
    /\ UNCHANGED <<ml, elems, timeLock, now, sink, pool, flushMgr, reg, rlock, hist>>

\* The tail flush skipping a buffer of one byte.
HasRemainingMany(bytes) == Len(bytes) > 1

\* "Flush remaining bytes in the buffer."
HasRemaining(bytes) == Len(bytes) > 0

FlushTail(t, sinkOK) ==
    LET l == th[t].l
        encoder == ml[l].encoder
    IN  /\ th[t].pc = "tail"
        /\ IF HasRemaining(encoder.bytes)
           THEN /\ ml' = [ml EXCEPT ![l].encoder = EncoderReset(PoolGet(pool)),
                                    ![l].metrics = CountHandle(@, sinkOK)]
                /\ pool' = pool + 1
                /\ sink' = Append(sink, Handed(l, encoder.id, encoder.bytes, sinkOK,
                                               hist.lists[l].nflush, 0))
           ELSE /\ sinkOK
                /\ UNCHANGED <<ml, pool, sink>>
        /\ th' = [th EXCEPT ![t].pc = "collect"]
        /\ UNCHANGED <<llock, elems, timeLock, now, flushMgr, reg, rlock, hist>>

\* l.aggregations.Remove(e) for each e of toCollect
RECURSIVE RemoveAll(_, _)
RemoveAll(aggregations, toCollect) ==
    IF aggregations = <<>> THEN <<>>
    ELSE IF \E k \in DOMAIN toCollect : toCollect[k] = Head(aggregations)
         THEN RemoveAll(Tail(aggregations), toCollect)
         ELSE <<Head(aggregations)>> \o RemoveAll(Tail(aggregations), toCollect)

\* The collect phase removing the tombstoned elements but counting none.
CollectUncounted(m) == [m EXCEPT !.aggregations = RemoveAll(@, m.toCollect)]

\* The collect phase counting the tombstoned elements but removing none.
CollectNothing(m) == [m EXCEPT !.metrics.flushCollected = @ + Len(m.toCollect)]

\* "Collect tombstoned elements", under the write lock, and count them.
Collect(m) ==
    [m EXCEPT !.aggregations = RemoveAll(@, m.toCollect),
              !.metrics.flushCollected = @ + Len(m.toCollect)]

FlushCollect(t) ==
    LET l == th[t].l IN
    /\ th[t].pc = "collect"
    /\ CanLock(llock[l])
    /\ ml' = [ml EXCEPT ![l] = Collect(@)]
    /\ th' = [th EXCEPT ![t].pc = "idle"]
    /\ hist' = [hist EXCEPT !.resp = Ret(t, "Flush", l, "nil", 0, Len(ml[l].toCollect))]
    /\ UNCHANGED <<llock, elems, timeLock, now, sink, pool, flushMgr, reg, rlock>>

(***************************************************************************)
(* One metric list used by producers and flushed by the flush manager,     *)
(* which serializes the flushes of a list: one flusher thread.             *)
(***************************************************************************)
TheFlusher == "f1"

ListNext ==
    \/ \E t \in Producers, l \in ListIds : PushBack(t, l)
    \/ \E t \in Producers, l \in ListIds : ListLen(t, l)
    \/ \E t \in Producers, l \in ListIds : ListClose(t, l)
    \/ \E l \in ListIds : FlushBegin(TheFlusher, l)
    \/ FlushReset(TheFlusher)
    \/ FlushRLock(TheFlusher)
    \/ ConsumeBegin(TheFlusher)
    \/ Len(hist.recs) < MaxConcSamples /\ Emit(TheFlusher)
    \/ \E collect \in BOOLEAN : ConsumeReturn(TheFlusher, collect)
    \/ FlushRUnlock(TheFlusher)
    \/ \E sinkOK \in BOOLEAN : FlushTail(TheFlusher, sinkOK)
    \/ FlushCollect(TheFlusher)

ListSpec == InitList /\ [][ListNext]_vars

(***************************************************************************)
(* The same list with the elements pushed before the flush manager starts  *)
(* flushing: the element handles are appended by PushBack, then the        *)
(* flusher runs alone, and the elements emit more samples.                 *)
(***************************************************************************)
FlusherStarted == hist.lists[1].nflush > 0

EmitNext ==
    \/ \E t \in Producers, l \in ListIds : ~FlusherStarted /\ PushBack(t, l)
    \/ \E l \in ListIds : FlushBegin(TheFlusher, l)
    \/ FlushReset(TheFlusher)
    \/ FlushRLock(TheFlusher)
    \/ ConsumeBegin(TheFlusher)
    \/ Len(hist.recs) < MaxSamples /\ Emit(TheFlusher)
    \/ \E collect \in BOOLEAN : ConsumeReturn(TheFlusher, collect)
    \/ FlushRUnlock(TheFlusher)
    \/ \E sinkOK \in BOOLEAN : FlushTail(TheFlusher, sinkOK)
    \/ FlushCollect(TheFlusher)

EmitSpec == InitList /\ [][EmitNext]_vars

(***************************************************************************)
(* One list whose Flush is called by two threads with nothing to keep the  *)
(* calls apart; its elements emit no sample.                               *)
(***************************************************************************)
RaceNext ==
    \/ \E t \in Producers, l \in ListIds : PushBack(t, l)
    \/ \E t \in Flushers, l \in ListIds : FlushBegin(t, l)
    \/ \E t \in Flushers : FlushReset(t)
    \/ \E t \in Flushers : FlushRLock(t)
    \/ \E t \in Flushers : ConsumeBegin(t)
    \/ \E t \in Flushers, collect \in BOOLEAN : ConsumeReturn(t, collect)
    \/ \E t \in Flushers, k \in 0..MaxPush : ConsumeReturnStale(t, k)
    \/ \E t \in Flushers : FlushRUnlock(t)
    \/ \E t \in Flushers, sinkOK \in BOOLEAN : FlushTail(t, sinkOK)
    \/ \E t \in Flushers : FlushCollect(t)

RaceSpec == InitList /\ [][RaceNext]_vars

(***************************************************************************)
(* The clock and the time lock.  nowFn returns a clock that does not go    *)
(* back.  An ingest operation, which is not part of list.go, holds the     *)
(* time lock's read side for as long as it takes effect.                   *)
(***************************************************************************)
AdvanceClock ==
    /\ now < MaxNow
    /\ now' = now + 1
    /\ UNCHANGED <<ml, llock, elems, timeLock, sink, pool, flushMgr, reg, rlock, th, hist>>

IngestBegin(t) ==
    /\ th[t].pc = "idle"
    /\ CanRLock(timeLock)
    /\ timeLock' = [timeLock EXCEPT !.r = @ \cup {t}]
    /\ th' = [th EXCEPT ![t].pc = "ingest"]
    /\ UNCHANGED <<ml, llock, elems, now, sink, pool, flushMgr, reg, rlock, hist>>

IngestEnd(t) ==
    /\ th[t].pc = "ingest"
    /\ timeLock' = RUnlock(timeLock, t)
    /\ th' = [th EXCEPT ![t].pc = "idle"]
    /\ UNCHANGED <<ml, llock, elems, now, sink, pool, flushMgr, reg, rlock, hist>>

\* One list flushed while the clock advances and ingest operations come and
\* go; its elements emit no sample.
ClockNext ==
    \/ AdvanceClock
    \/ \E t \in Producers : IngestBegin(t)
    \/ \E t \in Producers : IngestEnd(t)
    \/ \E t \in Producers, l \in ListIds : PushBack(t, l)
    \/ \E l \in ListIds : FlushBegin(TheFlusher, l)
    \/ FlushReset(TheFlusher)
    \/ FlushRLock(TheFlusher)
    \/ ConsumeBegin(TheFlusher)
    \/ \E collect \in BOOLEAN : ConsumeReturn(TheFlusher, collect)
    \/ FlushRUnlock(TheFlusher)
    \/ \E sinkOK \in BOOLEAN : FlushTail(TheFlusher, sinkOK)
    \/ FlushCollect(TheFlusher)

ClockSpec == InitList /\ [][ClockNext]_vars

(***************************************************************************)
(* The chunking scenario: a list with the scenario's maximum flush size,   *)
(* one element pushed to it, and one flush, in which the element emits     *)
(* samples that all encode to the same size, the encoder never fails and   *)
(* the sink accepts the buffers of the splits.                             *)
(***************************************************************************)
ChunkOpts == [Opts EXCEPT !.maxFlushSize = ChunkMaxFlushSize]

InitChunk ==
    /\ ml = <<NewMetricList(ListResolution, ChunkOpts, 0)>>
    /\ llock = <<FreeLock>>
    /\ elems = <<>>
    /\ timeLock = FreeLock
    /\ now = 0
    /\ sink = <<>>
    /\ pool = 1
    /\ flushMgr = <<1>>
    /\ reg = NewMetricLists
    /\ rlock = FreeLock
    /\ th = [t \in Threads |-> Idle]
    /\ hist = [NoHist EXCEPT !.lists = <<NewListHist>>]

EmitChunk(t) == ProcessAggregatedMetric(t, ChunkRecordSize, FALSE, 0, TRUE)

ChunkNext ==
    \/ \E t \in Producers, l \in ListIds : elems = <<>> /\ PushBack(t, l)
    \/ \E l \in ListIds : elems # <<>> /\ ~FlusherStarted /\ FlushBegin(TheFlusher, l)
    \/ FlushReset(TheFlusher)
    \/ FlushRLock(TheFlusher)
    \/ ConsumeBegin(TheFlusher)
    \/ Len(hist.recs) < ChunkSamples /\ EmitChunk(TheFlusher)
    \/ \E collect \in BOOLEAN : ConsumeReturn(TheFlusher, collect)
    \/ FlushRUnlock(TheFlusher)
    \/ \E sinkOK \in BOOLEAN : FlushTail(TheFlusher, sinkOK)
    \/ FlushCollect(TheFlusher)

ChunkSpec == InitChunk /\ [][ChunkNext]_vars

(***************************************************************************)
(* metricLists.Len                                                         *)
(***************************************************************************)
ListsOf(r) == {r.lists[res] : res \in {q \in Resolutions : r.lists[q] # 0}}

RegLen(t) ==
    /\ th[t].pc = "idle"
    /\ CanRLock(rlock)
    /\ hist' = [hist EXCEPT !.resp = Ret(t, "Lists.Len", 0, "nil", 0,
                                         Cardinality({q \in Resolutions : reg.lists[q] # 0}))]
    /\ UNCHANGED <<ml, llock, elems, timeLock, now, sink, pool, flushMgr, reg, rlock, th>>

(***************************************************************************)
(* metricLists.FindOrCreate: look the list up under the read lock; if it   *)
(* is not there, take the write lock, look again, and create it.           *)
(***************************************************************************)
\* Under the read lock: "closed", "found" or "missing".
FindUnderRLock(r, resolution) ==
    IF r.closed THEN "closed"
    ELSE IF r.lists[resolution] # 0 THEN "found"
    ELSE "missing"

FindBegin(t, resolution) ==
    /\ th[t].pc = "idle"
    /\ hist.finds < MaxFinds
    /\ CanRLock(rlock)
    /\ LET found == FindUnderRLock(reg, resolution) IN
        /\ th' = IF found = "missing"
                 THEN [th EXCEPT ![t].pc = "create", ![t].res = resolution]
                 ELSE th
        /\ hist' = [hist EXCEPT
                 !.finds = @ + 1,
                 !.resp = IF found = "closed"
                          THEN RetFind(t, 0, ErrListsClosed, resolution, "rlock")
                          ELSE IF found = "found"
                          THEN RetFind(t, reg.lists[resolution], "nil", resolution, "rlock")
                          ELSE @,
                 !.returned = IF found = "found"
                              THEN @ \cup {<<resolution, reg.lists[resolution]>>}
                              ELSE @]
    /\ UNCHANGED <<ml, llock, elems, timeLock, now, sink, pool, flushMgr, reg, rlock>>

\* The write-locked part without the second look.
FindUnderLockOnce(r, resolution) == IF r.closed THEN "closed" ELSE "new"

\* Under the write lock: "closed", "lock" (found by the second look) or "new".
FindUnderLock(r, resolution) ==
    IF r.closed THEN "closed"
    ELSE IF r.lists[resolution] # 0 THEN "lock"
    ELSE "new"

FindCreate(t) ==
    LET resolution == th[t].res
        found == FindUnderLock(reg, resolution)
        new == Len(ml) + 1
        list == IF found = "new" THEN new ELSE reg.lists[resolution]
    IN  /\ th[t].pc = "create"
        /\ CanLock(rlock)
        /\ IF found = "new"
           THEN /\ ml' = Append(ml, NewMetricList(resolution, Opts, pool))
                /\ llock' = Append(llock, FreeLock)
                /\ pool' = pool + 1
                /\ flushMgr' = Append(flushMgr, new)
                /\ reg' = [reg EXCEPT !.lists[resolution] = new]
           ELSE UNCHANGED <<ml, llock, pool, flushMgr, reg>>
        /\ th' = [th EXCEPT ![t].pc = "idle"]
        /\ hist' = [hist EXCEPT
                 !.lists = IF found = "new" THEN Append(@, NewListHist) ELSE @,
                 !.resp = IF found = "closed"
                          THEN RetFind(t, 0, ErrListsClosed, resolution, "lock")
                          ELSE RetFind(t, list, "nil", resolution, found),
                 !.returned = IF found = "closed" THEN @ ELSE @ \cup {<<resolution, list>>}]
        /\ UNCHANGED <<elems, timeLock, now, sink, rlock>>

(***************************************************************************)
(* metricLists.Close: under the write lock, which it holds until it        *)
(* returns, mark the registry closed and close every list of the map.      *)
(***************************************************************************)
\* A Close that marks the registry closed and closes no list.
ToCloseNone(r) == {}

\* The lists a Close that found the registry in state r has to close.
ToClose(r) == IF r.closed THEN {} ELSE ListsOf(r)

RegCloseBegin(t) ==
    /\ th[t].pc = "idle"
    /\ hist.regCloses < MaxRegCloses
    /\ CanLock(rlock)
    /\ rlock' = [rlock EXCEPT !.w = t]
    /\ reg' = [reg EXCEPT !.closed = TRUE]
    /\ th' = [th EXCEPT ![t].pc = "closing", ![t].todo = ToClose(reg)]
    /\ hist' = [hist EXCEPT !.regCloses = @ + 1]
    /\ UNCHANGED <<ml, llock, elems, timeLock, now, sink, pool, flushMgr>>

\* list.Close() on the next list of the map, in the map's iteration order.
RegCloseList(t, l) ==
    /\ th[t].pc = "closing"
    /\ l \in th[t].todo
    /\ CanLock(llock[l])
    /\ ml' = [ml EXCEPT ![l] = CloseList(@)]
    /\ th' = [th EXCEPT ![t].todo = @ \ {l}]
    /\ hist' = [hist EXCEPT !.lists[l].closeReturned = TRUE]
    /\ UNCHANGED <<llock, elems, timeLock, now, sink, pool, flushMgr, reg, rlock>>

\* The deferred l.Unlock(), and the return.
RegCloseEnd(t) ==
    /\ th[t].pc = "closing"
    /\ th[t].todo = {}
    /\ rlock' = [rlock EXCEPT !.w = NoThread]
    /\ th' = [th EXCEPT ![t].pc = "idle"]
    /\ hist' = [hist EXCEPT !.resp = Ret(t, "Lists.Close", 0, "nil", 0, 0),
                            !.regCloseReturned = TRUE]
    /\ UNCHANGED <<ml, llock, elems, timeLock, now, sink, pool, flushMgr, reg>>

(***************************************************************************)
(* metricLists.Tick: under the read lock, which it holds until it returns, *)
(* ask every list of the map for its resolution and its Len.               *)
(***************************************************************************)
TickBegin(t) ==
    /\ th[t].pc = "idle"
    /\ hist.ticks < MaxTicks
    /\ CanRLock(rlock)
    /\ rlock' = [rlock EXCEPT !.r = @ \cup {t}]
    /\ th' = [th EXCEPT ![t].pc = "ticking", ![t].todo = ListsOf(reg),
                        ![t].activeElems = <<>>]
    /\ hist' = [hist EXCEPT !.ticks = @ + 1]
    /\ UNCHANGED <<ml, llock, elems, timeLock, now, sink, pool, flushMgr, reg>>

\* activeElems[list.Resolution()] = list.Len(), for the next list of the map;
\* activeElems is kept as the sequence of <<resolution, numElems>> written.
TickList(t, l) ==
    /\ th[t].pc = "ticking"
    /\ l \in th[t].todo
    /\ CanRLock(llock[l])
    /\ th' = [th EXCEPT ![t].todo = @ \ {l},
                        ![t].activeElems = Append(@, <<ml[l].resolution, Len(ml[l].aggregations)>>)]
    /\ UNCHANGED <<ml, llock, elems, timeLock, now, sink, pool, flushMgr, reg, rlock, hist>>

\* The deferred l.RUnlock(), and the return.
TickEnd(t) ==
    /\ th[t].pc = "ticking"
    /\ th[t].todo = {}
    /\ rlock' = RUnlock(rlock, t)
    /\ th' = [th EXCEPT ![t].pc = "idle", ![t].activeElems = <<>>]
    /\ hist' = [hist EXCEPT !.resp = Ret(t, "Tick", 0, "nil", 0, Len(th[t].activeElems)),
                            !.activeElems = th[t].activeElems]
    /\ UNCHANGED <<ml, llock, elems, timeLock, now, sink, pool, flushMgr, reg>>

(***************************************************************************)
(* The registry used by several threads, and the lists it hands out used   *)
(* by producers.                                                           *)
(***************************************************************************)
Next ==
    \/ \E t \in RegThreads, resolution \in Resolutions : FindBegin(t, resolution)
    \/ \E t \in RegThreads : FindCreate(t)
    \/ \E t \in RegThreads : RegLen(t)
    \/ \E t \in RegThreads : RegCloseBegin(t)
    \/ \E t \in RegThreads, l \in ListIds : RegCloseList(t, l)
    \/ \E t \in RegThreads : RegCloseEnd(t)
    \/ \E t \in Producers, l \in ListIds : PushBack(t, l)
    \/ \E t \in Producers, l \in ListIds : ListClose(t, l)

Spec == Init /\ [][Next]_vars

(***************************************************************************)
(* The whole of it: the registry with Tick, the lists it hands out used by *)
(* a producer, and the flush manager's thread flushing them.               *)
(***************************************************************************)
TheProducer == "p1"
TheFinder == "r1"   \* calls FindOrCreate, Tick and Len
TheCloser == "r2"   \* calls Close

\* The calls begun so far, but for Len, which leaves no trace.
RECURSIVE ListCallsUpTo(_)
ListCallsUpTo(n) ==
    IF n = 0 THEN 0
    ELSE ListCallsUpTo(n - 1) + hist.lists[n].nflush + hist.lists[n].closes

CallsMade ==
    hist.finds + hist.ticks + hist.regCloses + hist.pushes + ListCallsUpTo(Len(hist.lists))

MayCall == CallsMade < MaxSysCalls

SysNext ==
    \/ \E resolution \in Resolutions : MayCall /\ FindBegin(TheFinder, resolution)
    \/ FindCreate(TheFinder)
    \/ RegLen(TheFinder)
    \/ MayCall /\ TickBegin(TheFinder)
    \/ \E l \in ListIds : TickList(TheFinder, l)
    \/ TickEnd(TheFinder)
    \/ MayCall /\ RegCloseBegin(TheCloser)
    \/ \E l \in ListIds : RegCloseList(TheCloser, l)
    \/ RegCloseEnd(TheCloser)
    \/ \E l \in ListIds : MayCall /\ PushBack(TheProducer, l)
    \/ \E l \in ListIds : ListLen(TheProducer, l)
    \/ \E l \in ListIds : MayCall /\ ListClose(TheProducer, l)
    \/ \E l \in ListIds : MayCall /\ FlushBegin(TheFlusher, l)
    \/ FlushReset(TheFlusher)
    \/ FlushRLock(TheFlusher)
    \/ ConsumeBegin(TheFlusher)
    \/ Len(hist.recs) < MaxConcSamples /\ Emit(TheFlusher)
    \/ \E collect \in BOOLEAN : ConsumeReturn(TheFlusher, collect)
    \/ FlushRUnlock(TheFlusher)
    \/ \E sinkOK \in BOOLEAN : FlushTail(TheFlusher, sinkOK)
    \/ FlushCollect(TheFlusher)

SysSpec == Init /\ [][SysNext]_vars

\* The steps of a call of thread t after its first: a thread inside a call
\* goes on when the lock it needs is free, an element's Consume returns and
\* so does the sink's Handle.
Continue(t) ==
    \/ FindCreate(t)
    \/ \E l \in ListIds : TickList(t, l)
    \/ TickEnd(t)
    \/ \E l \in ListIds : RegCloseList(t, l)
    \/ RegCloseEnd(t)
    \/ FlushReset(t)
    \/ FlushRLock(t)
    \/ ConsumeBegin(t)
    \/ \E collect \in BOOLEAN : ConsumeReturn(t, collect)
    \/ FlushRUnlock(t)
    \/ \E sinkOK \in BOOLEAN : FlushTail(t, sinkOK)
    \/ FlushCollect(t)

\* sync.RWMutex keeps no goroutine waiting for a lock that is free again and
\* again, and the scheduler runs every goroutine that can run.
FairSysSpec ==
    /\ Init
    /\ [][SysNext]_vars
    /\ \A t \in {TheFinder, TheCloser, TheFlusher} : WF_vars(Continue(t))

(***************************************************************************)
(*                              The claims                                 *)
(***************************************************************************)

\* C1: once a Close of a list has returned, every PushBack on it returns the
\* error ListClosed and no handle and leaves aggregations as it was, whatever
\* Flush and Len do meanwhile; and a PushBack that returns a handle and no
\* error appended exactly that one new handle at the tail.
C1_PushBackAfterClose ==
    [][\A t \in Producers, l \in ListIds :
        PushBack(t, l) =>
            /\ hist.lists[l].closeReturned =>
                  /\ hist'.resp.err = ErrListClosed
                  /\ hist'.resp.h = 0
                  /\ ml'[l].aggregations = ml[l].aggregations
                  /\ elems' = elems
            /\ hist'.resp.err = "nil" =>
                  /\ hist'.resp.h \notin DOMAIN elems
                  /\ ml'[l].aggregations = Append(ml[l].aggregations, hist'.resp.h)
            /\ hist'.resp.err \in {"nil", ErrListClosed}]_vars

\* A PushBack was refused after Close returned, while a flush of the list
\* that has tombstoned an element is between its consume and collect phases.
C1_Witness ==
    /\ hist.resp.op = "PushBack"
    /\ hist.resp.err = ErrListClosed
    /\ hist.lists[1].closeReturned
    /\ th[TheFlusher].pc = "collect"
    /\ ml[1].toCollect # <<>>

(***************************************************************************)
(* What the sink received of list l, and what a buffer decodes to.         *)
(***************************************************************************)
RECURSIVE SinkBytesUpTo(_, _)
SinkBytesUpTo(l, n) ==
    IF n = 0 THEN <<>>
    ELSE SinkBytesUpTo(l, n - 1) \o (IF sink[n].l = l THEN sink[n].bytes ELSE <<>>)

\* The buffers handed to the sink for list l, concatenated in hand-off order.
SinkBytes(l) == SinkBytesUpTo(l, Len(sink))

\* Decoding from offset 0: the records of the buffer in order, each
\* <<record, size>>, followed by <<0, 0>> if the decoding stops at bytes that
\* are not a whole record.
RECURSIVE Decode(_)
Decode(bytes) ==
    IF bytes = <<>> THEN <<>>
    ELSE LET rid == bytes[1][1]
             size == bytes[1][3]
         IN  IF /\ Len(bytes) >= size
                /\ \A k \in 1..size : bytes[k] = <<rid, k, size>>
             THEN <<<<rid, size>>>> \o Decode(SubSeq(bytes, size + 1, Len(bytes)))
             ELSE <<<<0, 0>>>>

WholeRecords(bytes) == \A k \in DOMAIN Decode(bytes) : Decode(bytes)[k][1] # 0

FlushReturned(t, l) == th[t].pc = "idle" /\ hist.lists[l].nflush > 0

\* C2: split preservation.  Once the flush has returned, the buffers handed to
\* the sink, concatenated in hand-off order, are exactly the successfully
\* encoded records concatenated in emission order, whatever the record sizes,
\* the number of splits and the answers of the sink.
C2_SplitPreservation ==
    \A l \in ListIds :
        FlushReturned(TheFlusher, l) => SinkBytes(l) = hist.lists[l].encoded

\* Two flushes have returned; three records were encoded, a split and a tail
\* flush handed buffers over, and the sink refused one of them.
C2_Witness ==
    /\ FlushReturned(TheFlusher, 1)
    /\ hist.lists[1].nflush = 2
    /\ Len(Decode(hist.lists[1].encoded)) = 3
    /\ \E i, j \in DOMAIN sink :
         /\ sink[i].crossing # 0 /\ sink[i].bytes # <<>> /\ ~sink[i].ok
         /\ sink[j].crossing = 0

\* C3: every buffer handed to the sink, by a split or by the tail flush,
\* decodes to whole records with no partial record at its end, and so does the
\* encoder's buffer between two samples: on a split the record that crossed
\* the threshold is moved whole and the handed buffer ends before it.
C3_WholeRecords ==
    /\ \A i \in DOMAIN sink : WholeRecords(sink[i].bytes)
    /\ \A l \in ListIds : WholeRecords(ml[l].encoder.bytes)
    /\ \A i \in DOMAIN sink :
         sink[i].crossing # 0 =>
            \A k \in DOMAIN sink[i].bytes : sink[i].bytes[k][1] # sink[i].crossing

\* A split handed over two records when a record longer than one byte crossed
\* the threshold, and that record came out whole in the next buffer.
C3_Witness ==
    \E i, j \in DOMAIN sink :
        /\ j = i + 1
        /\ Len(Decode(sink[i].bytes)) = 2
        /\ sink[i].crossing # 0
        /\ Decode(sink[j].bytes)[1] = <<sink[i].crossing, Opts.maxFlushSize>>

MaxOfRecSizes == CHOOSE x \in RecSizes : \A y \in RecSizes : y <= x

\* C4 as claimed: no buffer handed to the sink is longer than max_flush_size
\* plus one record, and the buffer a split hands over is the one that crossed
\* the threshold: it ends with the record that crossed it, its length being
\* size_before plus that record.
C4_CrossingBufferEmitted ==
    \A i \in DOMAIN sink :
        /\ Len(sink[i].bytes) <= Opts.maxFlushSize + MaxOfRecSizes
        /\ sink[i].crossing # 0 =>
              /\ sink[i].bytes # <<>>
              /\ sink[i].bytes[Len(sink[i].bytes)][1] = sink[i].crossing

\* C4, amended: no buffer handed to the sink is longer than max_flush_size
\* plus one record: each is shorter than max_flush_size or is one single
\* record.  The buffer a split hands over is the buffer as it was before the
\* record that crossed the threshold: its length is size_before, with
\* size_before plus that record at least max_flush_size, and the record is
\* not in it.
C4_BufferLength ==
    \A i \in DOMAIN sink :
        /\ Len(sink[i].bytes) <= Opts.maxFlushSize + MaxOfRecSizes
        /\ \/ Len(sink[i].bytes) < ml[sink[i].l].maxFlushSize
           \/ Len(Decode(sink[i].bytes)) = 1
        /\ sink[i].crossing # 0 =>
              /\ Len(sink[i].bytes) + hist.recs[sink[i].crossing].size
                    >= ml[sink[i].l].maxFlushSize
              /\ \A k \in DOMAIN sink[i].bytes : sink[i].bytes[k][1] # sink[i].crossing

\* A one-byte record brought the buffer to exactly max_flush_size and the
\* split handed over the records before it.
C4_Witness ==
    \E i \in DOMAIN sink :
        /\ sink[i].crossing # 0
        /\ hist.recs[sink[i].crossing].size = 1
        /\ Len(sink[i].bytes) = Opts.maxFlushSize - 1
        /\ Len(Decode(sink[i].bytes)) >= 2

\* C5: with the flushes of a list serialized, every buffer handed to the sink
\* holds only records emitted during the flush that hands it over, the
\* buffers are handed over in the order of the flushes, and when a flush has
\* returned nothing is left in the encoder's buffer for the next one.
C5_FlushOrder ==
    /\ \A i \in DOMAIN sink :
         \A k \in DOMAIN sink[i].bytes :
            hist.recs[sink[i].bytes[k][1]].flush = sink[i].flush
    /\ \A i, j \in DOMAIN sink :
         (i < j /\ sink[i].l = sink[j].l) => sink[i].flush <= sink[j].flush
    /\ \A l \in ListIds :
         FlushReturned(TheFlusher, l) => ml[l].encoder.bytes = <<>>

\* Two flushes have returned and each handed records to the sink.
C5_Witness ==
    /\ FlushReturned(TheFlusher, 1)
    /\ \E i, j \in DOMAIN sink :
         /\ sink[i].flush = 1 /\ sink[i].bytes # <<>>
         /\ sink[j].flush = 2 /\ sink[j].bytes # <<>>

(***************************************************************************)
(* The elements of list l by what Consume last returned for them.          *)
(***************************************************************************)
HandlesOf(l) == {h \in DOMAIN elems : elems[h].list = l}
LastConsume(h) == hist.consumed[h][Len(hist.consumed[h])]
KeptByConsume(l) ==
    {h \in HandlesOf(l) : hist.consumed[h] # <<>> /\ ~LastConsume(h).ret}
NeverConsumed(l) == {h \in HandlesOf(l) : hist.consumed[h] = <<>>}
\* The last call that returned is a Flush of l, and that thread is still idle.
JustFlushed(l) ==
    hist.resp.op = "Flush" /\ hist.resp.l = l /\ th[hist.resp.t].pc = "idle"

\* C6 as claimed: when a Flush returns, Len is the number of elements whose
\* last Consume returned false, also with PushBack running beside the flush.
C6_LenIsKept ==
    \A l \in ListIds :
        JustFlushed(l) => Len(ml[l].aggregations) = Cardinality(KeptByConsume(l))

\* C6, amended: when a Flush returns, Len is the number of elements whose
\* last Consume returned false plus the number of elements PushBack appended
\* that no flush has consumed yet; aggregations holds exactly these.
C6_LenAfterFlush ==
    \A l \in ListIds :
        JustFlushed(l) =>
            /\ Len(ml[l].aggregations)
                 = Cardinality(KeptByConsume(l)) + Cardinality(NeverConsumed(l))
            /\ {ml[l].aggregations[k] : k \in DOMAIN ml[l].aggregations}
                 = KeptByConsume(l) \cup NeverConsumed(l)

\* A Flush returned having collected an element, and an element pushed
\* during that flush is in the list unconsumed.
C6_Witness ==
    /\ JustFlushed(1)
    /\ hist.resp.n >= 1
    /\ NeverConsumed(1) # {}

\* C7: a sample whose encoding fails leaves the encoder's buffer as it was
\* before the call and the encoder without error, counts one encode error,
\* hands nothing to the sink, and the flush goes on; an element emitting A,
\* B, C with B failing has exactly A followed by C delivered.
C7_EncodeFailure ==
    /\ [][\A size \in RecSizes, fails \in BOOLEAN, sinkOK \in BOOLEAN :
           \A partial \in 0..(size - 1) :
            (/\ ProcessAggregatedMetric(TheFlusher, size, fails, partial, sinkOK)
             /\ ~hist'.recs[Len(hist'.recs)].ok)
            => LET l == th[TheFlusher].l IN
               /\ ml'[l].encoder.bytes = ml[l].encoder.bytes
               /\ ml'[l].encoder.id = ml[l].encoder.id
               /\ ~ml'[l].encoder.err
               /\ ml'[l].metrics.encodeErrors = ml[l].metrics.encodeErrors + 1
               /\ ml'[l].metrics.flushSuccess = ml[l].metrics.flushSuccess
               /\ ml'[l].metrics.flushErrors = ml[l].metrics.flushErrors
               /\ sink' = sink
               /\ hist'.lists[l].encoded = hist.lists[l].encoded
               /\ th'[TheFlusher].pc = "consume"]_vars
    /\ [](\A l \in ListIds :
            (/\ FlushReturned(TheFlusher, l)
             /\ Len(hist.recs) = 3
             /\ hist.recs[1].ok /\ ~hist.recs[2].ok /\ hist.recs[3].ok
             /\ \A k \in 1..3 : hist.recs[k].l = l)
            => /\ SinkBytes(l) = RecordBytes(1, hist.recs[1].size)
                                   \o RecordBytes(3, hist.recs[3].size)
               /\ ml[l].metrics.encodeErrors = 1)

\* One element emitted A, B and C in one flush, B failed to encode, and the
\* flush has returned with A and C delivered.
C7_Witness ==
    /\ FlushReturned(TheFlusher, 1)
    /\ Len(hist.recs) = 3
    /\ hist.recs[1].ok /\ ~hist.recs[2].ok /\ hist.recs[3].ok
    /\ hist.recs[2].size > 1
    /\ \A k \in 1..3 : hist.recs[k].h = hist.recs[1].h /\ hist.recs[k].flush = 1
    /\ Len(Decode(SinkBytes(1))) = 2
    /\ ml[1].metrics.encodeErrors = 1

\* C8: a hand-off the sink answers with an error is counted in flush_errors
\* and not in flush_success, so that the two add up to the Handle calls; no
\* encoder is handed over twice and the list encodes into one that was never
\* handed over; the flush completes, and when it has returned no tombstoned
\* handle is left in the list, and the next flush runs.
C8_SinkError ==
    /\ \A l \in ListIds :
         /\ ml[l].metrics.flushSuccess
              = Cardinality({i \in DOMAIN sink : sink[i].l = l /\ sink[i].ok})
         /\ ml[l].metrics.flushErrors
              = Cardinality({i \in DOMAIN sink : sink[i].l = l /\ ~sink[i].ok})
         /\ \A i \in DOMAIN sink : sink[i].id # ml[l].encoder.id
         /\ FlushReturned(TheFlusher, l) =>
              \A k \in DOMAIN ml[l].aggregations :
                 elems[ml[l].aggregations[k]].value # "nil"
    /\ \A i, j \in DOMAIN sink : sink[i].id = sink[j].id => i = j
    /\ \A i, j \in DOMAIN sink :
         i # j => \A k \in DOMAIN sink[i].bytes, n \in DOMAIN sink[j].bytes :
                     sink[i].bytes[k] # sink[j].bytes[n]
    /\ th[TheFlusher].pc # "panic"

\* The sink refused a buffer of the first flush, which collected an element;
\* the second flush handed over a buffer the sink accepted, and returned.
C8_Witness ==
    /\ FlushReturned(TheFlusher, 1)
    /\ ml[1].metrics.flushCollected >= 1
    /\ \E i, j \in DOMAIN sink :
         /\ sink[i].flush = 1 /\ ~sink[i].ok /\ sink[i].bytes # <<>>
         /\ sink[j].flush = 2 /\ sink[j].ok /\ sink[j].bytes # <<>>

(***************************************************************************)
(* The registry.                                                           *)
(***************************************************************************)
Registered == {q \in Resolutions : reg.lists[q] # 0}
ReturnedFor(q) == {p[2] : p \in {x \in hist.returned : x[1] = q}}

\* C9: whatever the interleaving of FindOrCreate calls, all calls for one
\* resolution return the same list, at most one list is ever constructed and
\* registered with the flush manager for a resolution, the list stored under
\* a resolution has that resolution, and the registry's Len is the number of
\* distinct resolutions asked for with success.
C9_FindOrCreateIdempotent ==
    /\ \A q \in Resolutions : Cardinality(ReturnedFor(q)) <= 1
    /\ \A a, b \in ListIds : ml[a].resolution = ml[b].resolution => a = b
    /\ flushMgr = [k \in ListIds |-> k]
    /\ \A q \in Registered :
         /\ reg.lists[q] \in ListIds
         /\ ml[reg.lists[q]].resolution = q
         /\ ReturnedFor(q) = {reg.lists[q]}
    /\ Cardinality(Registered)
         = Cardinality({q \in Resolutions : ReturnedFor(q) # {}})
    /\ Cardinality(Registered) = Len(ml)
    /\ hist.resp.op = "Lists.Len" => hist.resp.n = Cardinality(Registered)

\* Two threads missed the same resolution under the read lock; one created
\* the list, and the other found it by its second look, under the write lock.
C9_Witness ==
    /\ hist.resp.op = "FindOrCreate:lock"
    /\ hist.resp.err = "nil"
    /\ hist.resp.l = reg.lists[hist.resp.n]
    /\ Len(ml) = 1

\* C10: once a Close of the registry has returned, the registry is closed and
\* so is every list of it and every list FindOrCreate ever returned; from
\* then on every PushBack answers ListClosed, every FindOrCreate answers
\* ListsClosed, no list is created, and neither the registry nor any list's
\* closed flag changes, in particular not by a second Close.
C10_RegistryClose ==
    /\ [](hist.regCloseReturned =>
            /\ reg.closed
            /\ \A q \in Registered : ml[reg.lists[q]].closed
            /\ \A p \in hist.returned : ml[p[2]].closed)
    /\ [][hist.regCloseReturned =>
            /\ reg' = reg
            /\ Len(ml') = Len(ml)
            /\ flushMgr' = flushMgr
            /\ hist'.returned = hist.returned
            /\ \A l \in ListIds : ml'[l].closed = ml[l].closed
            /\ \A t \in Producers, l \in ListIds :
                  PushBack(t, l) => hist'.resp.err = ErrListClosed /\ hist'.resp.h = 0
            /\ \A t \in RegThreads :
                  /\ (\E q \in Resolutions : FindBegin(t, q)) =>
                        hist'.resp.err = ErrListsClosed /\ th'[t].pc = "idle"
                  /\ FindCreate(t) => hist'.resp.err = ErrListsClosed]_vars

\* The registry held two lists when it was closed; since the first Close
\* returned, a second Close has run and returned, a FindOrCreate that was
\* waiting for the write lock has been refused, and so has a PushBack.
C10_Witness ==
    /\ hist.regCloseReturned
    /\ hist.regCloses = 2
    /\ \A t \in RegThreads : th[t].pc = "idle"
    /\ Len(ml) = 2
    /\ hist.finds = 3
    /\ hist.resp.op = "PushBack"
    /\ hist.resp.err = ErrListClosed

(***************************************************************************)
(* A flush of list l, seen from the history.                               *)
(***************************************************************************)
\* The flush of l that started last has left its consume phase.
ConsumePhaseDone(t, l) ==
    /\ hist.lists[l].nflush > 0
    /\ th[t].pc \in {"tail", "collect", "idle"}

\* The handles Consume was called on by flush number n of l, in call order.
RECURSIVE ConsumedIn(_, _, _)
ConsumedIn(l, n, k) ==
    IF k = 0 THEN <<>>
    ELSE ConsumedIn(l, n, k - 1)
           \o (IF hist.lists[l].order[k].flush = n
               THEN <<hist.lists[l].order[k].h>> ELSE <<>>)

ConsumeOrder(l, n) == ConsumedIn(l, n, Len(hist.lists[l].order))

SeqRange(q) == {q[k] : k \in DOMAIN q}

\* C11: Close of a list is idempotent and does not drain.  Every Close step
\* changes at most the closed flag of its list, which it sets: aggregations,
\* the encoder and its buffer, to_collect, the counters, the elements and the
\* sink stay as they are, and a Close on a closed list changes nothing.  A
\* flush running across the Close or started after it consumes every element
\* it found in the list and leaves no tombstoned element in it, counting the
\* ones it collected.
C11_CloseIdempotent ==
    /\ [][\A t \in Producers, l \in ListIds :
            ListClose(t, l) =>
                /\ ml' = [ml EXCEPT ![l].closed = TRUE]
                /\ ml[l].closed => ml' = ml
                /\ UNCHANGED <<elems, sink, pool, llock, th>>]_vars
    /\ [](\A l \in ListIds :
            (ml[l].closed /\ ConsumePhaseDone(TheFlusher, l)) =>
                /\ ConsumeOrder(l, hist.lists[l].nflush) = hist.lists[l].atRLock
                /\ JustFlushed(l) =>
                      /\ \A k \in DOMAIN ml[l].aggregations :
                            elems[ml[l].aggregations[k]].value # "nil"
                      /\ SeqRange(ml[l].aggregations)
                            = KeptByConsume(l) \cup NeverConsumed(l)
                      /\ ml[l].metrics.flushCollected
                            = Cardinality({h \in HandlesOf(l) : elems[h].value = "nil"}))

\* Close was called twice on the list before its second flush returned; that
\* flush has returned, having consumed two elements and collected one.
C11_Witness ==
    /\ hist.lists[1].closes = 2
    /\ ml[1].closed
    /\ JustFlushed(1)
    /\ hist.lists[1].nflush = 2
    /\ Len(hist.lists[1].atRLock) = 2
    /\ hist.resp.n = 1
    /\ Len(ml[1].aggregations) = 1

\* C12: a PushBack running beside a Flush.  No PushBack takes effect while
\* the consume phase holds the read lock, so the flush consumes exactly the
\* elements that were in the list when its consume phase began; an element
\* appended meanwhile is not lost and not removed by the collect phase of a
\* flush that did not consume it, and an element left unconsumed by a flush
\* was appended after that flush's consume phase began, so the next flush
\* finds and consumes it.
C12_AppendDuringFlush ==
    /\ [][\A t \in Producers, l \in ListIds :
            PushBack(t, l) => llock[l].r = {} /\ th[TheFlusher].pc \notin {"iter", "consume"}]_vars
    /\ [][FlushCollect(TheFlusher) =>
            \A h \in NeverConsumed(th[TheFlusher].l) :
                h \in SeqRange(ml'[th[TheFlusher].l].aggregations)]_vars
    /\ [](\A l \in ListIds :
            /\ \A h \in HandlesOf(l) :
                  elems[h].value # "nil" => h \in SeqRange(ml[l].aggregations)
            /\ th[TheFlusher].pc \in {"iter", "consume"} =>
                  ml[l].aggregations = hist.lists[l].atRLock
            /\ ConsumePhaseDone(TheFlusher, l) =>
                  /\ ConsumeOrder(l, hist.lists[l].nflush) = hist.lists[l].atRLock
                  /\ \A h \in NeverConsumed(l) : h \notin SeqRange(hist.lists[l].atRLock)
                  /\ \A h \in HandlesOf(l) :
                        hist.lists[l].nflush > hist.pushedAt[h].flush
                            => hist.consumed[h] # <<>>
            /\ \A h \in HandlesOf(l) :
                  hist.consumed[h] # <<>> =>
                     /\ hist.consumed[h][1].flush
                           \in {hist.pushedAt[h].flush, hist.pushedAt[h].flush + 1}
                     /\ hist.pushedAt[h].busy = {} =>
                           hist.consumed[h][1].flush = hist.pushedAt[h].flush + 1)

\* An element was appended while the first flush, which tombstoned another
\* element, was past its consume phase; the first flush did not consume it and
\* did not remove it, and the second flush has consumed it.
C12_Witness ==
    /\ JustFlushed(1)
    /\ hist.lists[1].nflush = 2
    /\ \E h, g \in HandlesOf(1) :
         /\ hist.pushedAt[h] = [flush |-> 1, busy |-> {TheFlusher}]
         /\ Len(hist.consumed[h]) = 1
         /\ hist.consumed[h][1].flush = 2
         /\ Len(hist.consumed[g]) = 1
         /\ hist.consumed[g][1].flush = 1
         /\ hist.consumed[g][1].ret

(***************************************************************************)
(* The chunking scenario.                                                  *)
(***************************************************************************)
CeilDiv(a, b) == (a + b - 1) \div b

\* The records a buffer holds when the next one takes it to the threshold.
RecordsPerChunk ==
    CHOOSE k \in 0..ChunkMaxFlushSize :
        /\ k * ChunkRecordSize < ChunkMaxFlushSize
        /\ (k + 1) * ChunkRecordSize >= ChunkMaxFlushSize

\* The records 1..n of the scenario, as a buffer decodes to them.
RecordsInOrder(n) == [k \in 1..n |-> <<k, ChunkRecordSize>>]

\* The flush of the scenario has returned after the element emitted n samples.
ChunkFlushed(n) == FlushReturned(TheFlusher, 1) /\ Len(hist.recs) = n

\* C13 as claimed: with max_flush_size 64, 100 samples of 20 bytes in one
\* flush reach the sink in ceil(2000/64) = 32 buffers, which hold the 100
\* records in emission order.
C13_ChunksByBytes ==
    ChunkFlushed(100) =>
        /\ Len(sink) = CeilDiv(100 * ChunkRecordSize, ChunkMaxFlushSize)
        /\ Decode(SinkBytes(1)) = RecordsInOrder(100)

\* C13, amended: a buffer is handed over when the next record takes it to 64
\* bytes or more and goes out without that record, so every buffer of a
\* split holds 3 records (60 bytes); n samples reach the sink in
\* (n - 1) div 3 + 1 buffers, 100 samples in 34, and the buffers hold the
\* records in emission order.
C13_ChunksByRecords ==
    /\ \A n \in 1..ChunkSamples :
         ChunkFlushed(n) =>
            /\ Len(sink) = ((n - 1) \div RecordsPerChunk) + 1
            /\ Decode(SinkBytes(1)) = RecordsInOrder(n)
    /\ ChunkFlushed(100) => Len(sink) = 34
    /\ \A i \in DOMAIN sink :
         sink[i].crossing # 0 => Len(sink[i].bytes) = RecordsPerChunk * ChunkRecordSize

\* The element emitted its 100 samples in one flush, which has returned: 33
\* buffers of three records and the tail flush's buffer of one.
C13_Witness ==
    /\ ChunkFlushed(100)
    /\ Len(sink) = 34
    /\ \A i \in 1..33 : Len(Decode(sink[i].bytes)) = 3 /\ sink[i].crossing # 0
    /\ Len(Decode(sink[34].bytes)) = 1 /\ sink[34].crossing = 0
    /\ ml[1].maxFlushSize = 64

Max(a, b) == IF a >= b THEN a ELSE b

\* C14: the flush interval of every list is the larger of its resolution and
\* the minimum flush interval, from its construction on: no step of PushBack,
\* Flush, Close, Len, Tick or the registry changes it, or the resolution.
C14_FlushInterval ==
    /\ [](\A l \in ListIds :
            ml[l].flushInterval = Max(ml[l].resolution, Opts.minFlushInterval))
    /\ [][\A l \in ListIds :
            /\ ml'[l].flushInterval = ml[l].flushInterval
            /\ ml'[l].resolution = ml[l].resolution]_vars

\* A list whose resolution is below the minimum flush interval and one whose
\* resolution is above it; the first has taken a PushBack and a Flush that
\* consumed the element, and a Close.
C14_Witness ==
    \E a, b \in ListIds :
        /\ ml[a].resolution < Opts.minFlushInterval
        /\ ml[a].flushInterval = Opts.minFlushInterval
        /\ ml[b].resolution > Opts.minFlushInterval
        /\ ml[b].flushInterval = ml[b].resolution
        /\ hist.lists[a].nflush = 1
        /\ hist.lists[a].order # <<>>
        /\ ml[a].closed
        /\ th[TheFlusher].pc = "idle"

\* The flushes of l number i and j started at least flush_interval apart.
Apart(l, i, j) ==
    hist.lists[l].starts[j].start - hist.lists[l].starts[i].start >= ml[l].flushInterval

\* C15: a Flush samples the clock while it holds the write side of the time
\* lock, so with no holder of its read side, and its boundary B is that time
\* truncated down to a multiple of the resolution.  Over the flushes of a
\* list B never decreases, and it increases from one flush to another that
\* starts at least flush_interval later, so that no element is consumed twice
\* for one boundary by flushes that far apart.
C15_FlushBoundaries ==
    /\ [][\A l \in ListIds :
            FlushBegin(TheFlusher, l) =>
                /\ timeLock.r = {} /\ timeLock.w = NoThread
                /\ \A t \in Producers : th[t].pc # "ingest"
                /\ th'[TheFlusher].aligned % ml[l].resolution = 0
                /\ th'[TheFlusher].aligned <= now
                /\ now < th'[TheFlusher].aligned + ml[l].resolution]_vars
    /\ [](\A l \in ListIds :
            /\ \A i, j \in DOMAIN hist.lists[l].starts :
                  i < j =>
                     /\ hist.lists[l].starts[i].start <= hist.lists[l].starts[j].start
                     /\ hist.lists[l].starts[i].aligned <= hist.lists[l].starts[j].aligned
                     /\ Apart(l, i, j) =>
                           hist.lists[l].starts[i].aligned < hist.lists[l].starts[j].aligned
            /\ \A h \in HandlesOf(l) :
                  \A a, b \in DOMAIN hist.consumed[h] :
                     /\ hist.consumed[h][a].aligned
                           = hist.lists[l].starts[hist.consumed[h][a].flush].aligned
                     /\ (a < b /\ Apart(l, hist.consumed[h][a].flush, hist.consumed[h][b].flush))
                           => hist.consumed[h][a].aligned < hist.consumed[h][b].aligned)

\* Two flushes that started at times that are no multiples of the resolution,
\* a flush interval apart, consumed the same element for two boundaries; an
\* ingest operation holds the time lock's read side now.
C15_Witness ==
    /\ Len(hist.lists[1].starts) = 2
    /\ hist.lists[1].starts[1].start % ml[1].resolution # 0
    /\ hist.lists[1].starts[2].start % ml[1].resolution # 0
    /\ Apart(1, 1, 2)
    /\ \E h \in HandlesOf(1) :
         /\ Len(hist.consumed[h]) = 2
         /\ hist.consumed[h][1].aligned < hist.consumed[h][2].aligned
    /\ \E t \in Producers : th[t].pc = "ingest"
    /\ th[TheFlusher].pc = "idle"

\* The number of places of sequence q that hold x.
Occurrences(q, x) == Cardinality({k \in DOMAIN q : q[k] = x})

\* C16: with the flushes of a list serialized, and PushBack, Len and Close
\* running beside them, no tombstoned handle survives a flush.  From the
\* consume phase to the collect phase every handle in aggregations has a
\* payload or is in to_collect; the collect phase removes every handle of
\* to_collect, each of which is in aggregations once, and nothing else; and
\* when Flush has returned no handle in aggregations is without payload.
C16_NoTombstoneSurvives ==
    /\ [](\A l \in ListIds :
            /\ (th[TheFlusher].pc \in {"iter", "consume", "tail", "collect"}
                    /\ th[TheFlusher].l = l) =>
                  \A h \in SeqRange(ml[l].aggregations) :
                     elems[h].value # "nil" \/ h \in SeqRange(ml[l].toCollect)
            /\ th[TheFlusher].pc \in {"idle", "reset", "rlock"} =>
                  \A h \in SeqRange(ml[l].aggregations) : elems[h].value # "nil")
    /\ [][FlushCollect(TheFlusher) =>
            LET l == th[TheFlusher].l IN
            /\ \A h \in SeqRange(ml[l].toCollect) :
                  /\ elems[h].value = "nil"
                  /\ Occurrences(ml[l].toCollect, h) = 1
                  /\ Occurrences(ml[l].aggregations, h) = 1
                  /\ Occurrences(ml'[l].aggregations, h) = 0
            /\ Len(ml'[l].aggregations) = Len(ml[l].aggregations) - Len(ml[l].toCollect)
            /\ \A h \in SeqRange(ml[l].aggregations) \ SeqRange(ml[l].toCollect) :
                  Occurrences(ml'[l].aggregations, h) = 1]_vars

\* The second flush has returned; each of the two flushes tombstoned and
\* removed an element, the second of which was appended during the first, and
\* the list was closed meanwhile.
C16_Witness ==
    /\ JustFlushed(1)
    /\ hist.lists[1].nflush = 2
    /\ hist.resp.n = 1
    /\ ml[1].metrics.flushCollected = 2
    /\ ml[1].aggregations = <<>>
    /\ ml[1].closed
    /\ \E h \in HandlesOf(1) : hist.pushedAt[h].busy # {}

\* C17, as claimed: in every interleaving, two Flush calls of a list
\* overlapping included, the consume phase calls Consume only on handles with
\* a payload: no flush takes the payload of a tombstoned handle, which is nil,
\* for an element, and no tombstone recorded by a flush is lost: when no
\* flush is running every handle in aggregations has its payload.
C17_ConsumeOnlyLive ==
    /\ \A t \in Flushers : th[t].pc # "panic"
    /\ \A l \in ListIds :
         (\A t \in Flushers : th[t].pc = "idle") =>
            \A h \in SeqRange(ml[l].aggregations) : elems[h].value # "nil"

\* The handles of q whose last Consume, if any, returned false, in q's order.
RECURSIVE KeptInOrder(_)
KeptInOrder(q) ==
    IF q = <<>> THEN <<>>
    ELSE IF hist.consumed[Head(q)] # <<>> /\ LastConsume(Head(q)).ret
         THEN KeptInOrder(Tail(q))
         ELSE <<Head(q)>> \o KeptInOrder(Tail(q))

\* C18: with the flushes of a list serialized, a flush calls Consume exactly
\* once on every element that is in the list when its consume phase starts,
\* from head to tail, that is in insertion order, and with the one boundary
\* of that flush.  An element whose Consume returned true is closed once,
\* counted once in flush_collected, and no later flush consumes or closes
\* it; the elements whose Consume returned false stay in the list in
\* their order.
C18_ConsumeOnceInOrder ==
    /\ [](\A l \in ListIds :
            /\ ConsumePhaseDone(TheFlusher, l) =>
                  ConsumeOrder(l, hist.lists[l].nflush) = hist.lists[l].atRLock
            /\ \A k \in DOMAIN hist.lists[l].order :
                  hist.lists[l].order[k].aligned
                     = hist.lists[l].starts[hist.lists[l].order[k].flush].aligned
            /\ \A a, b \in DOMAIN hist.lists[l].atRLock :
                  a < b => hist.lists[l].atRLock[a] < hist.lists[l].atRLock[b]
            /\ \A h \in HandlesOf(l) :
                  /\ hist.elemClosed[h] = (IF elems[h].value = "nil" THEN 1 ELSE 0)
                  /\ \A k \in DOMAIN hist.consumed[h] :
                        /\ hist.consumed[h][k].ret => k = Len(hist.consumed[h])
                        /\ \A j \in DOMAIN hist.consumed[h] :
                              j < k => hist.consumed[h][j].flush < hist.consumed[h][k].flush
                  /\ Cardinality({k \in DOMAIN hist.lists[l].order :
                                     hist.lists[l].order[k].h = h})
                        = Len(hist.consumed[h])
                            + (IF /\ th[TheFlusher].pc = "consume"
                                  /\ ml[l].aggregations[th[TheFlusher].i] = h
                               THEN 1 ELSE 0)
            /\ th[TheFlusher].pc = "idle" =>
                  ml[l].metrics.flushCollected
                     = Cardinality({h \in HandlesOf(l) : hist.elemClosed[h] = 1}))
    /\ [][FlushCollect(TheFlusher) =>
            LET l == th[TheFlusher].l IN
            /\ ml'[l].aggregations = KeptInOrder(ml[l].aggregations)
            /\ ml'[l].metrics.flushCollected
                  = ml[l].metrics.flushCollected
                      + Cardinality({h \in HandlesOf(l) :
                            /\ hist.consumed[h] # <<>>
                            /\ LastConsume(h).ret
                            /\ LastConsume(h).flush = hist.lists[l].nflush})]_vars

\* The first flush consumed two elements in insertion order, collecting the
\* first and keeping the second; the second flush consumed the second alone
\* and kept it, and has returned.
C18_Witness ==
    /\ JustFlushed(1)
    /\ hist.lists[1].nflush = 2
    /\ ConsumeOrder(1, 1) = <<1, 2>>
    /\ ConsumeOrder(1, 2) = <<2>>
    /\ hist.consumed[1][1].ret
    /\ Len(hist.consumed[2]) = 2
    /\ ml[1].aggregations = <<2>>
    /\ ml[1].metrics.flushCollected = 1

\* C19, as claimed: every buffer handed to the sink holds at least one
\* record, whatever the sizes of the records and also when the first record
\* written to an empty buffer is max_flush_size long or longer; and a flush
\* in which no sample was encoded hands nothing to the sink.
C19_NonEmptyBuffers ==
    /\ \A i \in DOMAIN sink :
         /\ sink[i].bytes # <<>>
         /\ Len(Decode(sink[i].bytes)) >= 1
    /\ \A i \in DOMAIN sink :
         \E r \in DOMAIN hist.recs :
            /\ hist.recs[r].ok
            /\ hist.recs[r].l = sink[i].l
            /\ hist.recs[r].flush = sink[i].flush

\* The threads inside a call.
Busy == {t \in Threads : th[t].pc # "idle"}

\* C20: no deadlock, and every call returns.  Whatever the interleaving of
\* PushBack, Len, Close and Flush of the lists with FindOrCreate, Tick, Len
\* and Close of the registry, in no state are the threads inside a call all
\* waiting for a lock: one of them can take its next step; no call fails for
\* good; and with the threads scheduled fairly, Consume and Handle returning,
\* every thread inside a call gets out of it.
C20_NoDeadlock ==
    /\ [](Busy # {} => \E t \in Busy : ENABLED Continue(t))
    /\ [](\A t \in Threads : th[t].pc # "panic")
    /\ \A t \in {TheFinder, TheCloser, TheFlusher} : []<>(th[t].pc = "idle")

\* The registry's Close holds the registry's lock and waits for the lock of
\* a list, which a flush in its consume phase holds; a FindOrCreate that did
\* not find its list waits for the registry's lock.
C20_Witness ==
    /\ th[TheCloser].pc = "closing"
    /\ th[TheFlusher].pc = "consume"
    /\ th[TheFlusher].l \in th[TheCloser].todo
    /\ th[TheFinder].pc = "create"
    /\ rlock.w = TheCloser
    /\ ~ENABLED Continue(TheCloser)
    /\ ~ENABLED Continue(TheFinder)

=============================================================================
